---------------------------- MODULE Spec2Model ----------------------------
(***************************************************************************)
(* A model of glue.py: the binary-tree rectangle packer (Node), the        *)
(* per-image geometry derived from file names (Image), and the sprite      *)
(* pipeline (Sprite.__init__/process/save_image/save_css driven by         *)
(* SimpleSpriteManager).                                                   *)
(*                                                                         *)
(* Strings are sequences of one-character strings; a file extension is a   *)
(* single token ("png").  Python's None is 0 wherever a Node reference is  *)
(* expected; Node objects live in the arena `nodes`, and nodes[1] is the   *)
(* object bound to `root` in Sprite.process (grow_right/grow_down mutate   *)
(* it in place and move a shallow copy of it into the arena).              *)
(***************************************************************************)
EXTENDS Integers, Sequences, FiniteSets, TLC

VARIABLES
    listing,    \* os.listdir(sprite.path): the folder's files, in enumeration order
    conf,       \* the options / sprite.conf values the run reads
    pc,         \* position of the run
    images,     \* Sprite.images (SpecNode: the items handed to the packer so far)
    i,          \* index of the next image of the loop of Sprite.process
    nodes,      \* the arena of Node objects; nodes[1] is the root object
    lastOp,     \* what the last placement did, and on which root extent
    canvas,     \* the (width, height) save_image computed
    imageFile,  \* what the sprite image path holds
    cssFile,    \* the rules save_css wrote
    optipng,    \* the exit statuses of the external optimizer runs so far
    err,        \* the exception that ended the run, if any
    entries,    \* os.listdir(manager.path) of a multiple-sprite run
    entry,      \* index of the next entry of the loop of MultipleSpriteManager.process
    sprites,    \* BaseManager.sprites
    saving,     \* index of the sprite BaseManager.save is at
    outputs     \* the files written so far, in the order they were written

\* the state of the manager of a multiple-sprite run
manager == <<entries, entry, sprites, saving, outputs>>

vars == <<listing, conf, pc, images, i, nodes, lastOp, canvas, imageFile,
          cssFile, optipng, err, manager>>

----------------------------------------------------------------------------
(* Bounds *)

MaxSide == 2
MaxImages == 3

\* sides of the spec's growth scenario (10x10 root, 20x5 item)
ExampleSides == {5, 10, 20}

Sides == (1 .. MaxSide) \cup ExampleSides

----------------------------------------------------------------------------
(* Node *)

Node(x, y, width, height) ==
    [x |-> x, y |-> y, width |-> width, height |-> height,
     used |-> FALSE, right |-> 0, down |-> 0]

\* a plausible slip: only the width is compared
FindWidthOnly(ns, n, width, height) ==
    LET RECURSIVE F(_)
        F(m) == IF ns[m].used
                THEN LET r == F(ns[m].right)
                     IN IF r # 0 THEN r ELSE F(ns[m].down)
                ELSE IF ns[m].width >= width THEN m ELSE 0
    IN F(n)

\* a plausible slip: the down child is searched before the right one
FindDownFirst(ns, n, width, height) ==
    LET RECURSIVE F(_)
        F(m) == IF ns[m].used
                THEN LET d == F(ns[m].down)
                     IN IF d # 0 THEN d ELSE F(ns[m].right)
                ELSE IF ns[m].width >= width /\ ns[m].height >= height
                     THEN m ELSE 0
    IN F(n)

\* Node.find: depth first, right before down; a used node always has both
\* children, so the walk never meets None.
Find(ns, n, width, height) ==
    LET RECURSIVE F(_)
        F(m) == IF ns[m].used
                THEN LET r == F(ns[m].right)
                     IN IF r # 0 THEN r ELSE F(ns[m].down)
                ELSE IF ns[m].width >= width /\ ns[m].height >= height
                     THEN m ELSE 0
    IN F(n)

\* a plausible slip: the down child starts at node.y instead of node.y + height
SplitDownAtY(ns, n, width, height) ==
    LET nd == ns[n]
        d  == Len(ns) + 1
        r  == Len(ns) + 2
        ns1 == [ns EXCEPT ![n] = [nd EXCEPT !.used = TRUE, !.down = d, !.right = r]]
    IN [nodes |-> ns1 \o <<Node(nd.x, nd.y, nd.width, nd.height - height),
                           Node(nd.x + width, nd.y, nd.width - width, height)>>,
        node  |-> n]

\* Node.split: the two new Node objects take the next two arena slots.
Split(ns, n, width, height) ==
    LET nd == ns[n]
        d  == Len(ns) + 1
        r  == Len(ns) + 2
        ns1 == [ns EXCEPT ![n] = [nd EXCEPT !.used = TRUE, !.down = d, !.right = r]]
    IN [nodes |-> ns1 \o <<Node(nd.x, nd.y + height, nd.width, nd.height - height),
                           Node(nd.x + width, nd.y, nd.width - width, height)>>,
        node  |-> n]

\* a plausible slip: self.width = width instead of self.width += width
GrowRightAssign(ns, width, height) ==
    LET old  == ns[1]
        o    == Len(ns) + 1
        r    == Len(ns) + 2
        self == [old EXCEPT !.used = TRUE, !.x = 0, !.y = 0,
                            !.width = width, !.down = o, !.right = r]
        ns1  == [ns EXCEPT ![1] = self] \o
                <<old, Node(old.width, 0, width, self.height)>>
        n    == Find(ns1, 1, width, height)
    IN IF n # 0 THEN Split(ns1, n, width, height)
                ELSE [nodes |-> ns1, node |-> 0]

\* a plausible slip: self.width += height instead of self.width += width
GrowRightByHeight(ns, width, height) ==
    LET old  == ns[1]
        o    == Len(ns) + 1
        r    == Len(ns) + 2
        self == [old EXCEPT !.used = TRUE, !.x = 0, !.y = 0,
                            !.width = old.width + height, !.down = o, !.right = r]
        ns1  == [ns EXCEPT ![1] = self] \o
                <<old, Node(old.width, 0, width, self.height)>>
        n    == Find(ns1, 1, width, height)
    IN IF n # 0 THEN Split(ns1, n, width, height)
                ELSE [nodes |-> ns1, node |-> 0]

\* Node.grow_right: old_self (a shallow copy of the root) and the new strip
\* take the next two arena slots; the root object itself is mutated.
GrowRight(ns, width, height) ==
    LET old  == ns[1]
        o    == Len(ns) + 1
        r    == Len(ns) + 2
        self == [old EXCEPT !.used = TRUE, !.x = 0, !.y = 0,
                            !.width = old.width + width, !.down = o, !.right = r]
        ns1  == [ns EXCEPT ![1] = self] \o
                <<old, Node(old.width, 0, width, self.height)>>
        n    == Find(ns1, 1, width, height)
    IN IF n # 0 THEN Split(ns1, n, width, height)
                ELSE [nodes |-> ns1, node |-> 0]

\* a plausible slip: the new strip starts at y = height instead of old_self.height
GrowDownStripAtH(ns, width, height) ==
    LET old  == ns[1]
        o    == Len(ns) + 1
        d    == Len(ns) + 2
        self == [old EXCEPT !.used = TRUE, !.x = 0, !.y = 0,
                            !.height = old.height + height, !.right = o, !.down = d]
        ns1  == [ns EXCEPT ![1] = self] \o
                <<old, Node(0, height, self.width, height)>>
        n    == Find(ns1, 1, width, height)
    IN IF n # 0 THEN Split(ns1, n, width, height)
                ELSE [nodes |-> ns1, node |-> 0]

\* Node.grow_down
GrowDown(ns, width, height) ==
    LET old  == ns[1]
        o    == Len(ns) + 1
        d    == Len(ns) + 2
        self == [old EXCEPT !.used = TRUE, !.x = 0, !.y = 0,
                            !.height = old.height + height, !.right = o, !.down = d]
        ns1  == [ns EXCEPT ![1] = self] \o
                <<old, Node(0, old.height, self.width, height)>>
        n    == Find(ns1, 1, width, height)
    IN IF n # 0 THEN Split(ns1, n, width, height)
                ELSE [nodes |-> ns1, node |-> 0]

\* Tags the result of a grow_* call with the method that produced it.
Called(method, res) ==
    [nodes |-> res.nodes, node |-> res.node, op |-> method]

\* a plausible slip: the plain "can grow right" test comes before the
\* preference for growing down
GrowRightFirst(ns, width, height) ==
    LET self == ns[1]
        can_grow_d == width <= self.width
        can_grow_r == height <= self.height
        should_grow_r == can_grow_r /\ self.height >= self.width + width
        should_grow_d == can_grow_d /\ self.width >= self.height + height
    IN IF should_grow_r THEN Called("grow_right", GrowRight(ns, width, height))
       ELSE IF can_grow_r THEN Called("grow_right", GrowRight(ns, width, height))
       ELSE IF should_grow_d THEN Called("grow_down", GrowDown(ns, width, height))
       ELSE IF can_grow_d THEN Called("grow_down", GrowDown(ns, width, height))
       ELSE [nodes |-> ns, node |-> 0, op |-> "grow_none"]

\* Node.grow: the fall-through returns None and leaves the tree as it was.
Grow(ns, width, height) ==
    LET self == ns[1]
        can_grow_d == width <= self.width
        can_grow_r == height <= self.height
        should_grow_r == can_grow_r /\ self.height >= self.width + width
        should_grow_d == can_grow_d /\ self.width >= self.height + height
    IN IF should_grow_r THEN Called("grow_right", GrowRight(ns, width, height))
       ELSE IF should_grow_d THEN Called("grow_down", GrowDown(ns, width, height))
       ELSE IF can_grow_r THEN Called("grow_right", GrowRight(ns, width, height))
       ELSE IF can_grow_d THEN Called("grow_down", GrowDown(ns, width, height))
       ELSE [nodes |-> ns, node |-> 0, op |-> "grow_none"]

\* The body of the loop of Sprite.process for one image of effective size
\* width x height: find, then split the node found or grow the canvas.
Place(ns, width, height) ==
    LET node == Find(ns, 1, width, height)
    IN IF node # 0
       THEN Called("split", Split(ns, node, width, height))
       ELSE Grow(ns, width, height)

NoOp == [op |-> "none", width |-> 0, height |-> 0, W |-> 0, H |-> 0]

OpRecord(op, ns, width, height) ==
    [op |-> op, width |-> width, height |-> height,
     W |-> ns[1].width, H |-> ns[1].height]

----------------------------------------------------------------------------
(* Python string and list operations used by Image *)

Digits == {"0", "1", "2", "3", "4", "5", "6", "7", "8", "9"}

DigitVal(c) ==
    CASE c = "0" -> 0 [] c = "1" -> 1 [] c = "2" -> 2 [] c = "3" -> 3
      [] c = "4" -> 4 [] c = "5" -> 5 [] c = "6" -> 6 [] c = "7" -> 7
      [] c = "8" -> 8 [] c = "9" -> 9

\* int(s) for a string of decimal digits
ToInt(s) ==
    LET RECURSIVE V(_)
        V(k) == IF k = 0 THEN 0 ELSE 10 * V(k - 1) + DigitVal(s[k])
    IN V(Len(s))

Reverse(s) == [k \in 1 .. Len(s) |-> s[Len(s) + 1 - k]]

\* position of the last c in s, 0 when there is none
LastIndex(s, c) ==
    LET at == {k \in 1 .. Len(s) : s[k] = c}
    IN IF at = {} THEN 0 ELSE CHOOSE k \in at : \A m \in at : m <= k

\* s.rsplit(c, 1)
RSplit1(s, c) ==
    LET k == LastIndex(s, c)
    IN IF k = 0 THEN <<s>>
       ELSE <<SubSeq(s, 1, k - 1), SubSeq(s, k + 1, Len(s))>>

\* s.split(c): the pieces between the separators, empty pieces included
SplitOn(s, c) ==
    LET RECURSIVE P(_, _)
        P(k, cur) == IF k > Len(s) THEN <<cur>>
                     ELSE IF s[k] = c THEN <<cur>> \o P(k + 1, <<>>)
                     ELSE P(k + 1, Append(cur, s[k]))
    IN P(1, <<>>)

\* s.split(): the runs of non-blank characters
SplitBlank(s) ==
    SelectSeq(SplitOn(s, " "), LAMBDA piece : piece # <<>>)

\* s.replace('px', '')
RemovePx(s) ==
    LET RECURSIVE R(_)
        R(k) == IF k > Len(s) THEN <<>>
                ELSE IF k < Len(s) /\ s[k] = "p" /\ s[k + 1] = "x" THEN R(k + 2)
                ELSE <<s[k]>> \o R(k + 1)
    IN R(1)

\* re.match(r"^(\d+-?){,4}\d+$", s), by backtracking: from position p with
\* g groups consumed, a digit run p..q-1 is either the final \d+ (it ends
\* the string) or one more group, with or without its dash.
PaddingRe(s) ==
    LET RECURSIVE M(_, _)
        M(p, g) ==
            \E q \in p + 1 .. Len(s) + 1 :
                /\ \A k \in p .. q - 1 : s[k] \in Digits
                /\ \/ q = Len(s) + 1
                   \/ /\ g < 4
                      /\ \/ M(q, g + 1)
                         \/ q <= Len(s) /\ s[q] = "-" /\ M(q + 1, g + 1)
    IN M(1, 0)

----------------------------------------------------------------------------
(* Image *)

ORDERINGS == {"maxside", "width", "height", "area"}

\* Image.__init__: filename, format = name.rsplit('.', 1)
Filename(name) == RSplit1(name, ".")[1]

\* Image._padding_info
PaddingInfo(filename) ==
    LET padding_info == RSplit1(filename, "_")[Len(RSplit1(filename, "_"))]
    IN IF PaddingRe(padding_info) THEN SplitOn(padding_info, "-") ELSE <<>>

\* Image._generate_padding on the list of number strings (a str argument is
\* split by the caller, Padding).  An empty list would read the attribute
\* DEFAULT_PADDING, which Image does not have; the configured paddings drawn
\* by Init are never blank, so that branch is left out.
GeneratePadding(padding) ==
    LET quad == IF Len(padding) = 3 THEN Append(padding, padding[2])
                ELSE IF Len(padding) = 2 THEN padding \o padding
                ELSE IF Len(padding) = 1 THEN padding \o padding \o padding \o padding
                ELSE padding
    IN [k \in 1 .. Len(quad) |-> ToInt(quad[k])]

\* Image.padding: Python's padding[0..3] are Padding(...)[1..4]
Padding(filename, cf) ==
    LET padding == PaddingInfo(filename)
    IN IF Len(padding) = 0 \/ cf.ignore_filename_paddings
       THEN GeneratePadding(SplitBlank(RemovePx(cf.padding)))
       ELSE GeneratePadding(padding)

\* re.sub(r'[^\w\-\_]', '', name) over the characters file names are drawn from
WordChars == Digits \cup {"a", "b", "c", "_", "-"}

Namespace == <<"s", "p", "r", "i", "t", "e", "-", "s">>

\* Image.class_name
ClassName(filename, cf) ==
    LET padding_info == PaddingInfo(filename)
        \* '_%s' % '-'.join(padding_info): as long as the suffix plus the underscore
        strip == IF cf.ignore_filename_paddings \/ padding_info = <<>> THEN 0
                 ELSE Len(RSplit1(filename, "_")[Len(RSplit1(filename, "_"))]) + 1
        name  == IF strip = 0 THEN filename
                 ELSE IF strip >= Len(filename) THEN <<>>
                 ELSE SubSeq(filename, 1, Len(filename) - strip)
    IN Namespace \o <<"-">> \o SelectSeq(name, LAMBDA c : c \in WordChars)

\* Image.__init__ for a file [name, size]: the bitmap size plus the padding
Image(file, cf) ==
    LET padding == Padding(Filename(file.name), cf)
    IN [name   |-> file.name,
        size   |-> file.size,
        width  |-> file.size[1] + padding[2] + padding[4],
        height |-> file.size[2] + padding[1] + padding[3],
        node   |-> 0]

Max(a, b) == IF a >= b THEN a ELSE b

\* Image.__lt__
Lt(self, img, algorithm) ==
    IF algorithm = "width" THEN self.width <= img.width
    ELSE IF algorithm = "height" THEN self.height <= img.height
    ELSE IF algorithm = "area"
         THEN self.width * self.height <= img.width * img.height
    ELSE Max(self.width, self.height) <= Max(img.width, img.height)

----------------------------------------------------------------------------
(* sorted(images, reverse=True): CPython's list.sort on fewer than 64      *)
(* elements is one run found by count_run, completed by binarysort, every  *)
(* comparison being Image.__lt__; reverse=True reverses the list before    *)
(* and after.                                                              *)

\* count_run: the length of the run starting the list, and whether it descends
CountRun(a, algorithm) ==
    IF Len(a) = 1 THEN [n |-> 1, descending |-> FALSE]
    ELSE LET descending == Lt(a[2], a[1], algorithm)
             RECURSIVE N(_)
             N(k) == IF k <= Len(a) /\ Lt(a[k], a[k - 1], algorithm) = descending
                     THEN N(k + 1) ELSE k - 1
         IN [n |-> N(3), descending |-> descending]

\* binarysort: a[1 .. start-1] is sorted; insert a[start], a[start+1], ...
BinarySort(a, start, algorithm) ==
    LET RECURSIVE Pos(_, _, _, _)
        Pos(b, pivot, l, r) ==
            IF l < r
            THEN LET p == l + ((r - l) \div 2)
                 IN IF Lt(pivot, b[p], algorithm) THEN Pos(b, pivot, l, p)
                    ELSE Pos(b, pivot, p + 1, r)
            ELSE l
        RECURSIVE B(_, _)
        B(b, st) ==
            IF st > Len(b) THEN b
            ELSE LET l == Pos(b, b[st], 1, st)
                 IN B(SubSeq(b, 1, l - 1) \o <<b[st]>> \o SubSeq(b, l, st - 1)
                        \o SubSeq(b, st + 1, Len(b)), st + 1)
    IN B(a, start)

\* a plausible slip: the list is returned as enumerated
SortedNot(imgs, algorithm) == imgs

\* a plausible slip: reverse=True is left out, the smallest image comes first
SortedAscending(imgs, algorithm) ==
    IF Len(imgs) < 2 THEN imgs
    ELSE LET run == CountRun(imgs, algorithm)
             a1  == IF run.descending
                    THEN Reverse(SubSeq(imgs, 1, run.n))
                            \o SubSeq(imgs, run.n + 1, Len(imgs))
                    ELSE imgs
         IN BinarySort(a1, run.n + 1, algorithm)

Sorted(imgs, algorithm) ==
    IF Len(imgs) < 2 THEN imgs
    ELSE LET a   == Reverse(imgs)
             run == CountRun(a, algorithm)
             a1  == IF run.descending
                    THEN Reverse(SubSeq(a, 1, run.n)) \o SubSeq(a, run.n + 1, Len(a))
                    ELSE a
         IN Reverse(BinarySort(a1, run.n + 1, algorithm))

----------------------------------------------------------------------------
(* Sprite *)

VALID_IMAGE_EXTENSIONS == {"png", "jpg", "jpeg", "gif"}

\* re.IGNORECASE on the extension token
Lower(ext) ==
    CASE ext = "PNG" -> "png" [] ext = "JPG" -> "jpg" [] ext = "JPEG" -> "jpeg"
      [] ext = "GIF" -> "gif" [] OTHER -> ext

\* not n.startswith('.') and extension_re.match(n)
ValidName(n) ==
    /\ Len(n) >= 3
    /\ n[1] # "."
    /\ n[Len(n) - 1] = "."
    /\ Lower(n[Len(n)]) \in VALID_IMAGE_EXTENSIONS

\* number of images of imgs with the class name of im
ClassCount(imgs, im, cf) ==
    Cardinality({k \in 1 .. Len(imgs) :
        ClassName(Filename(imgs[k].name), cf) = ClassName(Filename(im.name), cf)})

\* a plausible slip: only the first two images of the first repeated name
DuplicatesFirstPair(imgs, cf) ==
    LET dup == SelectSeq(imgs, LAMBDA im : ClassCount(imgs, im, cf) > 1)
        first == SelectSeq(dup, LAMBDA im :
                     ClassName(Filename(im.name), cf) = ClassName(Filename(dup[1].name), cf))
    IN SubSeq(first, 1, 2)

\* dup = [i for i in images if class_names.count(i.class_name) > 1]
Duplicates(imgs, cf) ==
    SelectSeq(imgs, LAMBDA im : ClassCount(imgs, im, cf) > 1)

NoErr == [kind |-> "none", dup |-> <<>>]

\* Sprite._locate_images: the exception raised, or the sorted images
LocateImages(ls, cf) ==
    LET valid  == SelectSeq(ls, LAMBDA f : ValidName(f.name))
        imgs   == [k \in 1 .. Len(valid) |-> Image(valid[k], cf)]
        names  == {ClassName(Filename(imgs[k].name), cf) : k \in 1 .. Len(imgs)}
    IN IF Len(imgs) = 0
       THEN [err |-> [kind |-> "SourceImagesNotFoundError", dup |-> <<>>],
             images |-> <<>>]
       ELSE IF Cardinality(names) # Len(imgs)
       THEN [err |-> [kind |-> "MultipleImagesWithSameNameError",
                      dup  |-> Duplicates(imgs, cf)],
             images |-> <<>>]
       ELSE [err |-> NoErr, images |-> Sorted(imgs, cf.algorithm)]

\* Sprite.__init__ up to the loop of Sprite.process: the algorithm check,
\* _locate_images, and the root of the first image's size.
SpriteInit ==
    /\ pc = "init"
    /\ IF conf.algorithm \notin ORDERINGS
       THEN /\ err' = [kind |-> "InvalidImageOrderingAlgorithmError", dup |-> <<>>]
            /\ pc' = "error"
            /\ UNCHANGED <<images, nodes>>
       ELSE LET located == LocateImages(listing, conf)
            IN IF located.err.kind # "none"
               THEN /\ err' = located.err
                    /\ pc' = "error"
                    /\ UNCHANGED <<images, nodes>>
               ELSE /\ images' = located.images
                    /\ nodes' = <<Node(0, 0, located.images[1].width,
                                             located.images[1].height)>>
                    /\ pc' = "process"
                    /\ UNCHANGED err
    /\ UNCHANGED <<listing, conf, i, lastOp, canvas, imageFile, cssFile, optipng>>
    /\ UNCHANGED manager

\* One turn of the loop of Sprite.process.
ProcessImage ==
    /\ pc = "process"
    /\ i <= Len(images)
    /\ LET res == Place(nodes, images[i].width, images[i].height)
       IN /\ nodes' = res.nodes
          /\ images' = [images EXCEPT ![i].node = res.node]
          /\ lastOp' = OpRecord(res.op, nodes, images[i].width, images[i].height)
    /\ i' = i + 1
    /\ UNCHANGED <<listing, conf, pc, canvas, imageFile, cssFile, optipng, err>>
    /\ UNCHANGED manager

\* the loop of save_image that searches the max x and y
CanvasExtent(imgs, ns, cf) ==
    LET RECURSIVE C(_, _, _)
        C(k, width, height) ==
            IF k > Len(imgs) THEN <<width, height>>
            ELSE LET padding == Padding(Filename(imgs[k].name), cf)
                     x == ns[imgs[k].node].x + imgs[k].width + padding[2] + padding[4]
                     y == ns[imgs[k].node].y + imgs[k].height + padding[1] + padding[3]
                 IN C(k + 1, IF width < x THEN x ELSE width,
                             IF height < y THEN y ELSE height)
    IN C(1, 0, 0)

\* Sprite.save_image up to the call of the optimizer: the canvas is sized,
\* composed and saved.  An image whose node is None ends the run with the
\* AttributeError of image.node.x.
SaveImage ==
    /\ pc = "process"
    /\ i > Len(images)
    /\ IF \E k \in 1 .. Len(images) : images[k].node = 0
       THEN /\ err' = [kind |-> "AttributeError", dup |-> <<>>]
            /\ pc' = "error"
            /\ UNCHANGED <<canvas, imageFile>>
       ELSE /\ canvas' = CanvasExtent(images, nodes, conf)
            /\ imageFile' = "composer"
            /\ pc' = IF conf.optipng THEN "optipng" ELSE "save_css"
            /\ UNCHANGED err
    /\ UNCHANGED <<listing, conf, images, i, nodes, lastOp, cssFile, optipng>>
    /\ UNCHANGED manager

\* a plausible slip: the file is left as the optimizer left it
AfterOptipngNoRevert(error, left) == left

\* What the image path holds once save_image returns: save() again when the
\* optimizer's status is non-zero.
AfterOptipng(error, left) == IF error # 0 THEN "composer" ELSE left

\* The optimizer process ends with a status, having left the file
\* optimized (status 0), untouched or half written; save_image goes on.
OptipngExit(error, left) ==
    /\ pc = "optipng"
    /\ error = 0 => left = "optimized"
    /\ optipng' = <<error>>
    /\ imageFile' = AfterOptipng(error, left)
    /\ pc' = "save_css"
    /\ UNCHANGED <<listing, conf, images, i, nodes, lastOp, canvas, cssFile, err>>
    /\ UNCHANGED manager

\* Sprite.save_css: one rule per image
SaveCss ==
    /\ pc = "save_css"
    /\ cssFile' = [k \in 1 .. Len(images) |->
                     [image_class_name |-> ClassName(Filename(images[k].name), conf),
                      top    |-> 0 - nodes[images[k].node].y,
                      left   |-> 0 - nodes[images[k].node].x,
                      width  |-> images[k].width,
                      height |-> images[k].height]]
    /\ pc' = "done"
    /\ UNCHANGED <<listing, conf, images, i, nodes, lastOp, canvas, imageFile,
                   optipng, err>>
    /\ UNCHANGED manager

Next ==
    \/ SpriteInit
    \/ ProcessImage
    \/ SaveImage
    \/ \E error \in {0, 1}, left \in {"composer", "partial", "optimized"} :
           OptipngExit(error, left)
    \/ SaveCss

----------------------------------------------------------------------------
(* The folders and settings a run starts from *)

MaxFiles == 4
MaxPixels == 2
MaxTail == 9
MaxDigits == 3

File(name, size) == [name |-> name, size |-> size]

\* sequences of at most MaxFiles files with distinct names from names, each
\* with a bitmap size from sizes
Listings(names, sizes) ==
    UNION { {ls \in [1 .. k -> [name : names, size : sizes]] :
                \A a, b \in 1 .. k : a # b => ls[a].name # ls[b].name} :
            k \in 0 .. (IF MaxFiles < Cardinality(names) THEN MaxFiles
                        ELSE Cardinality(names)) }

\* a.png, b_1.png, c.gif
LayoutNames ==
    { <<"a", ".", "png">>, <<"b", "_", "1", ".", "png">>, <<"c", ".", "gif">> }

\* a.png, a.gif, b.png, b_1.png, .a.png, a.txt
FolderNames ==
    { <<"a", ".", "png">>, <<"a", ".", "gif">>, <<"b", ".", "png">>,
      <<"b", "_", "1", ".", "png">>, <<".", "a", ".", "png">>,
      <<"a", ".", "txt">> }

\* "0", "2px 1px", "1 2 3"
PaddingConfs ==
    { <<"0">>, <<"2", "p", "x", " ", "1", "p", "x">>, <<"1", " ", "2", " ", "3">> }

Heads == { <<>>, <<"a">>, <<"a", "_">>, <<"a", "_", "b", "_">> }

\* digits and dashes, no number longer than MaxDigits
Tails ==
    { t \in UNION { [1 .. k -> {"1", "-"}] : k \in 0 .. MaxTail } :
        \A k \in 1 .. Len(t) - MaxDigits :
            \E j \in k .. k + MaxDigits : t[j] = "-" }

\* a run of one sprite has no manager loop
OneSprite ==
    /\ entries = <<>>
    /\ entry = 1
    /\ sprites = <<>>
    /\ saving = 1
    /\ outputs = <<>>

Start ==
    /\ OneSprite
    /\ pc = "init"
    /\ images = <<>>
    /\ i = 1
    /\ nodes = <<>>
    /\ lastOp = NoOp
    /\ canvas = <<0, 0>>
    /\ imageFile = "absent"
    /\ cssFile = <<>>
    /\ optipng = <<>>
    /\ err = NoErr

\* images of every size, under every ordering
InitLayout ==
    /\ listing \in Listings(LayoutNames, (1 .. MaxPixels) \X (1 .. MaxPixels))
    /\ conf \in [algorithm : ORDERINGS, padding : {<<"0">>},
                 ignore_filename_paddings : {FALSE}, optipng : {FALSE}]
    /\ Start

\* folders with hidden files, other files and repeated class names, with
\* and without the optimizer
InitFolder ==
    /\ listing \in Listings(FolderNames, {<<1, 1>>})
    /\ conf \in [algorithm : {"maxside", "maxarea"}, padding : PaddingConfs,
                 ignore_filename_paddings : BOOLEAN, optipng : BOOLEAN]
    /\ Start

\* one file, its stem a head followed by digits and dashes
InitStem ==
    /\ \E head \in Heads, tail \in Tails :
           listing = <<File(head \o tail \o <<".", "png">>, <<1, 1>>)>>
    /\ conf \in [algorithm : {"maxside"}, padding : {<<"1", " ", "2", " ", "3">>},
                 ignore_filename_paddings : BOOLEAN, optipng : {FALSE}]
    /\ Start

Init == InitLayout \/ InitFolder \/ InitStem

Spec == Init /\ [][Next]_vars

----------------------------------------------------------------------------
(* SpecNode: the packer driven as Sprite.process drives it (a root of the  *)
(* first item's size, then find+split or grow per item), on items of any   *)
(* sizes in any order.                                                     *)

NoConf == [algorithm |-> "maxside", padding |-> <<"0">>,
           ignore_filename_paddings |-> FALSE, optipng |-> FALSE]
InitNode ==
    /\ listing = <<>>
    /\ conf = NoConf
    /\ pc = "node"
    /\ images = <<>>
    /\ i = 1
    /\ nodes = <<>>
    /\ lastOp = NoOp
    /\ canvas = <<0, 0>>
    /\ imageFile = "absent"
    /\ cssFile = <<>>
    /\ optipng = <<>>
    /\ err = NoErr
    /\ OneSprite

NodePlace(width, height) ==
    /\ pc = "node"
    /\ Len(images) < MaxImages
    /\ LET root == IF images = <<>> THEN <<Node(0, 0, width, height)>> ELSE nodes
           res  == Place(root, width, height)
       IN /\ nodes' = res.nodes
          /\ images' = Append(images, [name |-> <<>>, width |-> width,
                                       height |-> height, node |-> res.node])
          /\ lastOp' = OpRecord(res.op, root, width, height)
    /\ i' = i + 1
    /\ UNCHANGED <<listing, conf, pc, canvas, imageFile, cssFile, optipng, err>>
    /\ UNCHANGED manager

NextNode == \E width \in Sides, height \in Sides : NodePlace(width, height)

SpecNode == InitNode /\ [][NextNode]_vars

----------------------------------------------------------------------------
(* SpecMulti: MultipleSpriteManager.process.  Every sub-folder of the       *)
(* source path becomes a Sprite (built and laid out by its constructor),    *)
(* then BaseManager.save writes the image and the stylesheet of each.  A    *)
(* sprite is named by the position of its folder in the listing.  The runs  *)
(* drawn by InitMulti have the optimizer off.                               *)

MaxEntries == 3

\* Sprite.get_conf('algorithm'): the command line's value when there is one
\* (the empty string stands for None), else the folder's sprite.conf or
\* DEFAULT_SETTINGS
GetConf(options, folder) ==
    [options EXCEPT !.algorithm = IF options.algorithm # "" THEN options.algorithm
                                  ELSE folder.algorithm]

\* the loop of Sprite.process over the sorted images
Process(imgs) ==
    LET RECURSIVE P(_, _, _)
        P(k, ns, done) ==
            IF k > Len(imgs) THEN [nodes |-> ns, images |-> done]
            ELSE LET res == Place(ns, imgs[k].width, imgs[k].height)
                 IN P(k + 1, res.nodes, Append(done, [imgs[k] EXCEPT !.node = res.node]))
    IN P(1, <<Node(0, 0, imgs[1].width, imgs[1].height)>>, <<>>)

NoSprite == [name |-> 0, conf |-> NoConf, images |-> <<>>, nodes |-> <<>>]

\* the sprite once the loop of Sprite.process has given run.images their nodes
Processed(name, cf, run) ==
    [err |-> NoErr,
     sprite |-> [name |-> name, conf |-> cf,
                 images |-> run.images, nodes |-> run.nodes]]

\* Sprite.process on what _locate_images gave: its exception, or the layout
Located(name, cf, located) ==
    IF located.err.kind # "none"
    THEN [err |-> located.err, sprite |-> NoSprite]
    ELSE Processed(name, cf, Process(located.images))

\* Sprite(name=name, path=path, manager=self): the exception the constructor
\* raises, or the sprite with every image placed
NewSprite(name, folder, cf) ==
    IF cf.algorithm \notin ORDERINGS
    THEN [err |-> [kind |-> "InvalidImageOrderingAlgorithmError", dup |-> <<>>],
          sprite |-> NoSprite]
    ELSE Located(name, cf, LocateImages(folder.files, cf))

\* what save_image writes for a sprite
ImageOutput(sprite) ==
    [file |-> "image", sprite |-> sprite.name,
     canvas |-> CanvasExtent(sprite.images, sprite.nodes, sprite.conf)]

\* what save_css writes for a sprite
CssOutput(sprite) ==
    [file |-> "css", sprite |-> sprite.name,
     rules |-> {ClassName(Filename(sprite.images[k].name), sprite.conf) :
                  k \in 1 .. Len(sprite.images)}]

\* a plausible slip: each sprite is saved as soon as it is laid out
ProcessSpriteSaves(sprite) == <<ImageOutput(sprite), CssOutput(sprite)>>

\* the files BaseManager.process_sprite writes: none, the sprite is built
\* and appended to self.sprites
ProcessSpriteWrites(sprite) == <<>>

\* One turn of the loop of MultipleSpriteManager.process: an entry that is
\* not a folder is skipped, a folder goes through process_sprite, and an
\* exception of the Sprite constructor ends the run.
ManagerEntry ==
    /\ pc = "manager_scan"
    /\ entry <= Len(entries)
    /\ IF ~entries[entry].isdir
       THEN /\ entry' = entry + 1
            /\ UNCHANGED <<pc, err, sprites, outputs>>
       ELSE \E made \in {NewSprite(entry, entries[entry],
                                    GetConf(conf, entries[entry]))} :
               IF made.err.kind # "none"
               THEN /\ err' = made.err
                    /\ pc' = "error"
                    /\ UNCHANGED <<entry, sprites, outputs>>
               ELSE /\ sprites' = Append(sprites, made.sprite)
                    /\ outputs' = outputs \o ProcessSpriteWrites(made.sprite)
                    /\ entry' = entry + 1
                    /\ UNCHANGED <<pc, err>>
    /\ UNCHANGED <<listing, conf, images, i, nodes, lastOp, canvas, imageFile,
                   cssFile, optipng, entries, saving>>

\* After the loop: NoSpritesFoldersFoundError, or self.save() starts.
ManagerScanned ==
    /\ pc = "manager_scan"
    /\ entry > Len(entries)
    /\ IF Len(sprites) = 0
       THEN /\ err' = [kind |-> "NoSpritesFoldersFoundError", dup |-> <<>>]
            /\ pc' = "error"
       ELSE /\ pc' = "manager_save_image"
            /\ UNCHANGED err
    /\ UNCHANGED <<listing, conf, images, i, nodes, lastOp, canvas, imageFile,
                   cssFile, optipng, manager>>

\* BaseManager.save: sprite.save_image() of the sprite the loop is at
ManagerSaveImage ==
    /\ pc = "manager_save_image"
    /\ IF \E k \in 1 .. Len(sprites[saving].images) : sprites[saving].images[k].node = 0
       THEN /\ err' = [kind |-> "AttributeError", dup |-> <<>>]
            /\ pc' = "error"
            /\ UNCHANGED outputs
       ELSE /\ outputs' = Append(outputs, ImageOutput(sprites[saving]))
            /\ pc' = "manager_save_css"
            /\ UNCHANGED err
    /\ UNCHANGED <<listing, conf, images, i, nodes, lastOp, canvas, imageFile,
                   cssFile, optipng, entries, entry, sprites, saving>>

\* BaseManager.save: sprite.save_css() of the same sprite, then the next one
ManagerSaveCss ==
    /\ pc = "manager_save_css"
    /\ outputs' = Append(outputs, CssOutput(sprites[saving]))
    /\ saving' = saving + 1
    /\ pc' = IF saving < Len(sprites) THEN "manager_save_image" ELSE "done"
    /\ UNCHANGED <<listing, conf, images, i, nodes, lastOp, canvas, imageFile,
                   cssFile, optipng, err, entries, entry, sprites>>

NextMulti ==
    \/ ManagerEntry
    \/ ManagerScanned
    \/ ManagerSaveImage
    \/ ManagerSaveCss

\* an entry of the source path: a plain file, or a folder with its files and
\* the algorithm its sprite.conf (or the default) gives
Entry(isdir, files, algorithm) ==
    [isdir |-> isdir, files |-> files, algorithm |-> algorithm]

\* a file; folders of one image, of two images, with a file that is no
\* image, without images, with a repeated class name, with a bad algorithm
EntryKinds ==
    { Entry(FALSE, <<>>, "maxside"),
      Entry(TRUE, <<File(<<"a", ".", "png">>, <<1, 1>>)>>, "maxside"),
      Entry(TRUE, <<File(<<"a", ".", "png">>, <<1, 2>>),
                    File(<<"b", "_", "1", ".", "png">>, <<2, 1>>),
                    File(<<"a", ".", "txt">>, <<1, 1>>)>>, "width"),
      Entry(TRUE, <<File(<<"a", ".", "txt">>, <<1, 1>>)>>, "maxside"),
      Entry(TRUE, <<File(<<"a", ".", "png">>, <<1, 1>>),
                    File(<<"a", ".", "gif">>, <<1, 1>>)>>, "maxside"),
      Entry(TRUE, <<File(<<"a", ".", "png">>, <<1, 1>>)>>, "maxarea") }

InitMulti ==
    /\ entries \in UNION { [1 .. k -> EntryKinds] : k \in 0 .. MaxEntries }
    /\ conf \in [algorithm : {"", "area"}, padding : {<<"0">>},
                 ignore_filename_paddings : {FALSE}, optipng : {FALSE}]
    /\ entry = 1
    /\ sprites = <<>>
    /\ saving = 1
    /\ outputs = <<>>
    /\ pc = "manager_scan"
    /\ listing = <<>>
    /\ images = <<>>
    /\ i = 1
    /\ nodes = <<>>
    /\ lastOp = NoOp
    /\ canvas = <<0, 0>>
    /\ imageFile = "absent"
    /\ cssFile = <<>>
    /\ optipng = <<>>
    /\ err = NoErr

SpecMulti == InitMulti /\ [][NextMulti]_vars

----------------------------------------------------------------------------
(* Placement geometry shared by the claims *)

Placed(k) == images[k].node # 0

NodeOf(k) == nodes[images[k].node]

\* [x, x + width) x [y, y + height) of two placed images do not intersect
Disjoint(a, b) ==
    \/ NodeOf(a).x + images[a].width <= NodeOf(b).x
    \/ NodeOf(b).x + images[b].width <= NodeOf(a).x
    \/ NodeOf(a).y + images[a].height <= NodeOf(b).y
    \/ NodeOf(b).y + images[b].height <= NodeOf(a).y

\* C1: the rectangles of any two distinct placed images, each spanning the
\* image's effective width and height from its node's (x, y), do not overlap.
C1_NoOverlap ==
    \A a, b \in 1 .. Len(images) :
        (a < b /\ Placed(a) /\ Placed(b)) => Disjoint(a, b)

\* three images placed, the canvas grown to the right on the way and the
\* last image put into a free leaf by find+split
C1_Witness ==
    /\ Len(images) = 3
    /\ \A k \in 1 .. 3 : Placed(k)
    /\ lastOp.op = "split"
    /\ nodes[1].width > images[1].width

\* C3 (as claimed): a grow that can extend neither way ends the run with a
\* fatal packing error, and no image is carried on with an unset placement.
C3_GrowthFailureIsFatal ==
    /\ lastOp.op = "grow_none" => (pc = "error" /\ err.kind # "none")
    /\ \A k \in 1 .. Len(images) : k < i => Placed(k)

\* C4: the node recorded for a placed image is at least as wide and as high
\* as the image's effective size, at placement and ever after.
C4_Fit ==
    \A k \in 1 .. Len(images) :
        Placed(k) => /\ NodeOf(k).width >= images[k].width
                     /\ NodeOf(k).height >= images[k].height

\* an image sits in a leaf that was strictly wider than it, after a growth
C4_Witness ==
    /\ Len(images) = 3
    /\ \E k \in 2 .. 3 : Placed(k) /\ NodeOf(k).width > images[k].width
    /\ lastOp.op \in {"grow_right", "grow_down"}

\* C5: a step never changes the node or the (x, y) of an image placed
\* before it (the first image's node is the root object), and never
\* decreases the root's width or height.
C5_GrowKeepsPlacements ==
    [][ /\ \A k \in 1 .. Len(images) :
              Placed(k) => /\ k <= Len(images')
                           /\ images'[k].node = images[k].node
                           /\ nodes'[images[k].node].x = NodeOf(k).x
                           /\ nodes'[images[k].node].y = NodeOf(k).y
        /\ nodes # <<>> => /\ nodes'[1].width >= nodes[1].width
                           /\ nodes'[1].height >= nodes[1].height ]_vars

\* the canvas has grown right and then down while the first image, whose
\* node is the root object, stays placed
C5_Witness ==
    /\ Len(images) = 3
    /\ images[1].node = 1
    /\ lastOp.op = "grow_down"
    /\ nodes[1].width > images[1].width
    /\ nodes[1].height > images[1].height

\* the image the last placement was for
LastImage == images[i - 1]

\* C6: a grow to the right makes the root (W+w) x H and places the item at
\* (W, 0); a grow down makes it W x (H+h) and places the item at (0, H);
\* either way grow returns a placement.  A 10x10 root grows right for a
\* 20x5 item, to 30x10 with the item at (10, 0).
C6_GrowPlacesInStrip ==
    /\ lastOp.op = "grow_right" =>
          /\ nodes[1].width = lastOp.W + lastOp.width
          /\ nodes[1].height = lastOp.H
          /\ LastImage.node # 0
          /\ nodes[LastImage.node].x = lastOp.W
          /\ nodes[LastImage.node].y = 0
    /\ lastOp.op = "grow_down" =>
          /\ nodes[1].width = lastOp.W
          /\ nodes[1].height = lastOp.H + lastOp.height
          /\ LastImage.node # 0
          /\ nodes[LastImage.node].x = 0
          /\ nodes[LastImage.node].y = lastOp.H
    /\ (lastOp.W = 10 /\ lastOp.H = 10 /\ lastOp.width = 20 /\ lastOp.height = 5) =>
          /\ lastOp.op = "grow_right"
          /\ nodes[1].width = 30 /\ nodes[1].height = 10
          /\ nodes[LastImage.node].x = 10 /\ nodes[LastImage.node].y = 0

\* the growth scenario itself, after an earlier grow down
C6_Witness ==
    /\ lastOp = [op |-> "grow_right", width |-> 20, height |-> 5, W |-> 10, H |-> 10]
    /\ Len(images) = 3

----------------------------------------------------------------------------
(* Claims about the sprite pipeline *)

SetMax(S) == CHOOSE m \in S : \A n \in S : n <= m

Saved == pc \in {"optipng", "save_css", "done"}

PaddingOf(k) == Padding(Filename(images[k].name), conf)

\* C2 (as claimed): the canvas save_image computes is, on each axis, the
\* largest node.x + effective width (node.y + effective height) over the
\* images, the effective size being the bitmap size plus the padding of
\* each side counted once.
C2_CanvasIsBoundingBox ==
    Saved =>
        /\ canvas[1] = SetMax({NodeOf(k).x + images[k].size[1]
                                 + PaddingOf(k)[2] + PaddingOf(k)[4] :
                               k \in 1 .. Len(images)})
        /\ canvas[2] = SetMax({NodeOf(k).y + images[k].size[2]
                                 + PaddingOf(k)[1] + PaddingOf(k)[3] :
                               k \in 1 .. Len(images)})

\* every order in which os.listdir may enumerate the files of ls
Orders(ls) ==
    {[k \in 1 .. Len(ls) |-> ls[p[k]]] :
        p \in {q \in [1 .. Len(ls) -> 1 .. Len(ls)] :
                  \A a, b \in 1 .. Len(ls) : a # b => q[a] # q[b]}}

\* the canvas size and the offset of every image of a whole run on ls
RunLayout(ls, cf) ==
    LET imgs == LocateImages(ls, cf).images
        root == <<Node(0, 0, imgs[1].width, imgs[1].height)>>
        RECURSIVE P(_, _, _)
        P(k, ns, done) ==
            IF k > Len(imgs) THEN [nodes |-> ns, images |-> done]
            ELSE LET res == Place(ns, imgs[k].width, imgs[k].height)
                 IN P(k + 1, res.nodes, Append(done, [imgs[k] EXCEPT !.node = res.node]))
        run == P(1, root, <<>>)
    IN [canvas  |-> CanvasExtent(run.images, run.nodes, cf),
        offsets |-> {<<run.images[k].name, run.nodes[run.images[k].node].x,
                       run.nodes[run.images[k].node].y>> : k \in 1 .. Len(imgs)}]

ThisLayout ==
    [canvas  |-> canvas,
     offsets |-> {<<images[k].name, NodeOf(k).x, NodeOf(k).y>> :
                    k \in 1 .. Len(images)}]

\* the metric Image.__lt__ compares
OrderingKey(im) ==
    IF conf.algorithm = "width" THEN im.width
    ELSE IF conf.algorithm = "height" THEN im.height
    ELSE IF conf.algorithm = "area" THEN im.width * im.height
    ELSE Max(im.width, im.height)

DistinctKeys ==
    \A a, b \in 1 .. Len(images) :
        a # b => OrderingKey(images[a]) # OrderingKey(images[b])

\* C7 (as claimed): a finished run's canvas size and per-image offsets are
\* those of the run on every other enumeration order of the same files.
C7_SameLayoutAnyOrder ==
    pc = "done" => \A ls \in Orders(listing) : RunLayout(ls, conf) = ThisLayout

\* C7 (amended): the same, for images whose ordering keys are pairwise
\* distinct.
C7_SameLayoutDistinctKeys ==
    (pc = "done" /\ DistinctKeys) =>
        \A ls \in Orders(listing) : RunLayout(ls, conf) = ThisLayout

\* three images with distinct keys, enumerated smallest first, and a canvas
\* that had to grow
C7_Witness ==
    /\ pc = "done"
    /\ Len(images) = 3
    /\ DistinctKeys
    /\ listing[1].name = images[3].name
    /\ lastOp.op \in {"grow_right", "grow_down"}

ValidFiles == SelectSeq(listing, LAMBDA f : ValidName(f.name))

ClassOf(f) == ClassName(Filename(f.name), conf)

\* the valid files whose class name another valid file has too
Clashing ==
    {k \in 1 .. Len(ValidFiles) :
        \E m \in 1 .. Len(ValidFiles) :
            m # k /\ ClassOf(ValidFiles[m]) = ClassOf(ValidFiles[k])}

SuffixNumbers(stem) ==
    LET parts == SplitOn(RSplit1(stem, "_")[Len(RSplit1(stem, "_"))], "-")
    IN IF /\ LastIndex(stem, "_") # 0
          /\ Len(parts) \in 1 .. 4
          /\ \A k \in 1 .. Len(parts) :
                 parts[k] # <<>> /\ \A j \in 1 .. Len(parts[k]) : parts[k][j] \in Digits
       THEN [k \in 1 .. Len(parts) |-> ToInt(parts[k])]
       ELSE <<>>

\* [top, right, bottom, left] of 1 to 4 numbers
Quad(n) ==
    CASE Len(n) = 4 -> n
      [] Len(n) = 3 -> <<n[1], n[2], n[3], n[2]>>
      [] Len(n) = 2 -> <<n[1], n[2], n[1], n[2]>>
      [] Len(n) = 1 -> <<n[1], n[1], n[1], n[1]>>

ConfNumbers ==
    LET parts == SplitBlank(RemovePx(conf.padding))
    IN [k \in 1 .. Len(parts) |-> ToInt(parts[k])]

\* C9 (as claimed): an image's padding is the quad of its stem's suffix
\* numbers when the stem ends with an underscore and 1 to 4 dash-separated
\* integers (and filename paddings are not disabled), and the quad of the
\* configured padding otherwise.
C9_PaddingFromSuffix ==
    \A k \in 1 .. Len(images) :
        LET numbers == SuffixNumbers(Filename(images[k].name))
        IN PaddingOf(k) = IF numbers # <<>> /\ ~conf.ignore_filename_paddings
                          THEN Quad(numbers) ELSE Quad(ConfNumbers)

\* C10: once save_image is over the image path holds the composer's bytes,
\* or the optimizer's output when the optimizer was enabled and returned 0;
\* a non-zero status leaves the composer's bytes, raises nothing, and
\* save_css is the next step and writes a rule per image.
C10_OptimizerFailureRecovers ==
    /\ pc \in {"save_css", "done"} =>
          /\ imageFile \in {"composer", "optimized"}
          /\ imageFile = "optimized" <=> (conf.optipng /\ optipng = <<0>>)
    /\ (conf.optipng /\ pc \in {"save_css", "done"}) => optipng # <<>>
    /\ optipng \notin {<<>>, <<0>>} =>
          /\ err = NoErr
          /\ pc \in {"save_css", "done"}
          /\ pc = "save_css" => ENABLED SaveCss
          /\ pc = "done" => Len(cssFile) = Len(images)

\* the optimizer failed, and the stylesheet was written all the same
C10_Witness ==
    /\ pc = "done"
    /\ optipng = <<1>>
    /\ imageFile = "composer"
    /\ Len(cssFile) = 3

----------------------------------------------------------------------------
(* Claims about the choice of Node.grow and the walk of Node.find *)

\* C11: a grow(w, h) on a W x H root goes right if preferRight, else down if
\* preferDown, else right if canExtendRight, else down if canExtendDown
\* (and nowhere otherwise); it never goes right with h > H nor down with
\* w > W.
C11_GrowDirection ==
    LET canExtendRight == lastOp.height <= lastOp.H
        canExtendDown  == lastOp.width <= lastOp.W
        preferRight    == canExtendRight /\ lastOp.H >= lastOp.W + lastOp.width
        preferDown     == canExtendDown /\ lastOp.W >= lastOp.H + lastOp.height
        chosen == CASE preferRight    -> "grow_right"
                    [] ~preferRight /\ preferDown -> "grow_down"
                    [] ~preferRight /\ ~preferDown /\ canExtendRight -> "grow_right"
                    [] ~preferRight /\ ~preferDown /\ ~canExtendRight /\ canExtendDown
                          -> "grow_down"
                    [] OTHER -> "grow_none"
    IN lastOp.op \in {"grow_right", "grow_down", "grow_none"} =>
          /\ lastOp.op = chosen
          /\ lastOp.op = "grow_right" => lastOp.height <= lastOp.H
          /\ lastOp.op = "grow_down" => lastOp.width <= lastOp.W

\* the canvas grew down by preference although it could also extend to the
\* right, after it had grown to the right before
C11_Witness ==
    /\ lastOp.op = "grow_down"
    /\ lastOp.height <= lastOp.H
    /\ lastOp.W >= lastOp.H + lastOp.height
    /\ Len(images) = 3
    /\ lastOp.W > images[1].width

\* the unused nodes under n, in the order in which a depth-first walk that
\* enters the right child before the down child meets them
FreeLeaves(ns, n) ==
    LET RECURSIVE L(_)
        L(m) == IF ns[m].used THEN L(ns[m].right) \o L(ns[m].down) ELSE <<m>>
    IN L(n)

\* the free leaves under n that can hold width x height, in that order
Fitting(ns, n, width, height) ==
    SelectSeq(FreeLeaves(ns, n),
              LAMBDA m : ns[m].width >= width /\ ns[m].height >= height)

\* C12: on every tree the packer builds and from every node of it, find for
\* the size last asked for returns an unused node at least that wide and
\* high, namely the first fitting free leaf of the right-before-down walk,
\* and None exactly when no free leaf fits; the find of every placement
\* step, whatever the size, returns that first fitting leaf of the tree or
\* None when there is none, and changes no node: when it returns a node only
\* that node is changed (by split), and when it returns None and nothing
\* can grow the tree is what it was.
C12_FindFirstFit ==
    /\ [](\A n \in 1 .. Len(nodes) :
            LET found == Find(nodes, n, lastOp.width, lastOp.height)
                fitting == Fitting(nodes, n, lastOp.width, lastOp.height)
            IN /\ found # 0 => /\ ~nodes[found].used
                               /\ nodes[found].width >= lastOp.width
                               /\ nodes[found].height >= lastOp.height
               /\ found = 0 <=> fitting = <<>>
               /\ found # 0 => found = fitting[1])
    /\ [][ (nodes # <<>> /\ i' = i + 1) =>
             LET fitting == Fitting(nodes, 1, lastOp'.width, lastOp'.height)
             IN /\ lastOp'.op = "split" <=> fitting # <<>>
                /\ lastOp'.op = "split" =>
                      /\ images'[i].node = fitting[1]
                      /\ \A m \in 1 .. Len(nodes) :
                             m # fitting[1] => nodes'[m] = nodes[m]
                /\ lastOp'.op = "grow_none" => nodes' = nodes ]_vars

\* the last placement used the node find returned, and on the tree as it is
\* now some request fits two free leaves of which find returns the larger,
\* because the walk meets it first
C12_Witness ==
    /\ lastOp.op = "split"
    /\ Len(images) = 3
    /\ \E width \in Sides, height \in Sides :
           LET fitting == Fitting(nodes, 1, width, height)
           IN /\ Len(fitting) >= 2
              /\ Find(nodes, 1, width, height) = fitting[1]
              /\ \E k \in 2 .. Len(fitting) :
                     nodes[fitting[k]].width * nodes[fitting[k]].height
                        < nodes[fitting[1]].width * nodes[fitting[1]].height

----------------------------------------------------------------------------
(* Claims about the loop of Sprite.process *)

\* C13: in a run of the pipeline, under each of the four orderings, grow is
\* never called for an item both wider and higher than the root, its
\* fall-through is never taken, every image the loop has passed has a node,
\* and save_image never meets an image without one.
C13_GrowNeverFails ==
    /\ lastOp.op # "grow_none"
    /\ lastOp.op \in {"grow_right", "grow_down"} =>
          ~(lastOp.width > lastOp.W /\ lastOp.height > lastOp.H)
    /\ \A k \in 1 .. Len(images) : k < i => images[k].node # 0
    /\ err.kind # "AttributeError"

\* a finished run ordered by area whose last image was higher than the
\* root, made the canvas grow down and has its node
C13_Witness ==
    /\ pc = "done"
    /\ conf.algorithm = "area"
    /\ lastOp.op = "grow_down"
    /\ lastOp.height > lastOp.H
    /\ \A k \in 1 .. Len(images) : images[k].node # 0

\* the images the loop of Sprite.process has given a node so far
PlacedSoFar == {k \in 1 .. Len(images) : k < i /\ Placed(k)}

\* C14: after every placement step the root is as wide as the largest
\* node.x + effective width, and as high as the largest node.y + effective
\* height, over the images placed so far.
C14_RootIsBoundingBox ==
    PlacedSoFar # {} =>
        /\ nodes[1].width
              = SetMax({NodeOf(k).x + images[k].width : k \in PlacedSoFar})
        /\ nodes[1].height
              = SetMax({NodeOf(k).y + images[k].height : k \in PlacedSoFar})

\* the loop is still running after three placements, the canvas has grown
\* both ways and the last image went into a free leaf
C14_Witness ==
    /\ pc = "process"
    /\ i = 4
    /\ PlacedSoFar = {1, 2, 3}
    /\ nodes[1].width > images[1].width
    /\ nodes[1].height > images[1].height

----------------------------------------------------------------------------
(* Claims about the multiple-sprite mode *)

SubFolders == {k \in 1 .. Len(entries) : entries[k].isdir}

\* the images of a folder: its files not starting with a dot and ending in
\* an image extension
ImagesOf(k) == SelectSeq(entries[k].files, LAMBDA f : ValidName(f.name))

\* a sub-folder whose sprite cannot be built: an ordering that is none of
\* the four, no image, or two images with one class name
Fatal(k) ==
    LET cf == GetConf(conf, entries[k])
        imgs == ImagesOf(k)
    IN \/ cf.algorithm \notin ORDERINGS
       \/ imgs = <<>>
       \/ \E a, b \in 1 .. Len(imgs) :
              a # b /\ ClassName(Filename(imgs[a].name), cf)
                          = ClassName(Filename(imgs[b].name), cf)

\* C15: in multiple-sprite mode a file is written only once the loop over
\* the entries is over and every sub-folder has its sprite; the files come
\* sprite by sprite, each image right before its stylesheet; and when a
\* sub-folder is fatal (no images, repeated class names, invalid algorithm)
\* or there is no sub-folder, the run ends in an error and nothing is ever
\* written, whatever was laid out before.
C15_SaveAfterAllLaidOut ==
    /\ outputs # <<>> =>
          /\ entry > Len(entries)
          /\ {sprites[j].name : j \in 1 .. Len(sprites)} = SubFolders
          /\ Len(sprites) = Cardinality(SubFolders)
          /\ \A j \in 1 .. Len(sprites) :
                 \A k \in 1 .. Len(sprites[j].images) : sprites[j].images[k].node # 0
    /\ \A p \in 1 .. Len(outputs) :
          /\ outputs[p].sprite = sprites[(p + 1) \div 2].name
          /\ outputs[p].file = IF p % 2 = 1 THEN "image" ELSE "css"
    /\ ((\E k \in SubFolders : Fatal(k)) \/ SubFolders = {}) =>
          /\ outputs = <<>>
          /\ pc \in {"manager_scan", "error"}
    /\ pc = "error" => outputs = <<>> /\ err.kind # "none"
    /\ pc = "done" => Len(outputs) = 2 * Len(sprites)

\* two sprites were laid out, the third folder has a repeated class name,
\* and the run is over with nothing written
C15_Witness ==
    /\ pc = "error"
    /\ err.kind = "MultipleImagesWithSameNameError"
    /\ Len(sprites) = 2
    /\ Len(sprites[2].images) = 2
    /\ outputs = <<>>

=============================================================================
